---- MODULE Spec2Model ----
(***************************************************************************)
(* Model of x/oracle/client/cli/query.go: the seven query sub-commands of  *)
(* the oracle module.  One behaviour is one invocation of one sub-command: *)
(* cobra validates the positional arguments (the Args field), then RunE    *)
(* builds the client query context, decodes the validator address where    *)
(* the command takes one, issues the RPC and prints the response.          *)
(*                                                                         *)
(* Strings are sequences of one-character strings so that the bech32       *)
(* conversion can be computed.  The bech32 format is shortened: the human  *)
(* readable part of a validator address is the single letter "v", the      *)
(* separator is "1", the data characters are "q" and "v", and the checksum *)
(* is left out.  What is kept of the decoder is what the commands can      *)
(* observe: empty strings, mixed case, a missing separator, a foreign      *)
(* prefix and foreign data characters are rejected, an all-upper-case      *)
(* string is accepted, and the encoder always produces lower case.         *)
(***************************************************************************)
EXTENDS Integers, Sequences, FiniteSets, TLC

\* Longest positional argument, in characters.
MaxArgLen == 3
\* Largest number of positional arguments on the command line.
MaxArgs == 2

VARIABLES cmd, args, pc, err, validator, calls, res, stdout, trace

vars == <<cmd, args, pc, err, validator, calls, res, stdout, trace>>

----------------------------------------------------------------------------
\* Strings and command lines

Alphabet == {"v", "V", "q", "Q", "1"}

Strings == UNION {[1..n -> Alphabet] : n \in 0..MaxArgLen}

\* Arguments after the first one are drawn from a small set.
ExtraArgs == {<<>>, <<"V", "1", "Q">>}

ArgLists ==
  {<<>>} \cup
  UNION {{<<s>> \o t : s \in Strings, t \in [1..(n - 1) -> ExtraArgs]} : n \in 1..MaxArgs}

\* The sub-commands GetQueryCmd registers.
GetQueryCmd ==
  {"exchange-rates", "actives", "params", "feeder", "miss",
   "aggregate-prevotes", "aggregate-votes"}

----------------------------------------------------------------------------
\* Errors

Nil == [kind |-> "nil", detail |-> "nil"]

ArgumentError == [kind |-> "ArgumentError", detail |-> "wrong number of arguments"]

ClientCtxErrors == {[kind |-> "ClientCtxError", detail |-> "invalid client context"]}

DecodeError(d) == [kind |-> "DecodeError", detail |-> d]

RPCErrors ==
  {[kind |-> "ServiceError", detail |-> "not found"],
   [kind |-> "ServiceError", detail |-> "unavailable"]}

PrintErrors == {[kind |-> "PrintError", detail |-> "cannot render"]}

----------------------------------------------------------------------------
\* cobra positional-argument validators

RangeArgs(min, max, n) == n >= min /\ n <= max

ArbitraryArgs(n) == TRUE

NoArgs(n) == n = 0

MinimumNArgs(k, n) == n >= k

ExactArgs(k, n) == n = k

----------------------------------------------------------------------------
\* Validator addresses: sdk.ValAddressFromBech32 and ValAddress.String

Bech32PrefixValAddr == <<"v">>

Charset == {"q", "v"}

Lower(c) == CASE c = "V" -> "v" [] c = "Q" -> "q" [] OTHER -> c

Upper(c) == CASE c = "v" -> "V" [] c = "q" -> "Q" [] OTHER -> c

ToLower(s) == [i \in 1..Len(s) |-> Lower(s[i])]

ToUpper(s) == [i \in 1..Len(s) |-> Upper(s[i])]

\* Index of the last separator, 0 when there is none.
LastIndex(s) ==
  IF \E i \in 1..Len(s) : s[i] = "1"
  THEN CHOOSE i \in 1..Len(s) : s[i] = "1" /\ \A j \in (i + 1)..Len(s) : s[j] # "1"
  ELSE 0

\* bech32 decoding: [err, hrp, data].
DecodeAndConvert(bech) ==
  LET lower == ToLower(bech)
      one   == LastIndex(lower)
      hrp   == SubSeq(lower, 1, one - 1)
      data  == SubSeq(lower, one + 1, Len(lower))
      fail(d) == [err |-> DecodeError(d), hrp |-> <<>>, data |-> <<>>]
  IN  IF bech # lower /\ bech # ToUpper(bech) THEN fail("mixed case")
      ELSE IF one < 2 \/ one + 1 > Len(lower) THEN fail("invalid separator index")
      ELSE IF \E i \in 1..Len(data) : data[i] \notin Charset THEN fail("invalid character")
      ELSE [err |-> Nil, hrp |-> hrp, data |-> data]

\* The address bytes of a validator address string: [err, addr].
ValAddressFromBech32(address) ==
  LET d == DecodeAndConvert(address)
  IN  IF Len(address) = 0
      THEN [err |-> DecodeError("empty address string is not allowed"), addr |-> <<>>]
      ELSE IF d.err # Nil THEN [err |-> d.err, addr |-> <<>>]
      ELSE IF d.hrp # Bech32PrefixValAddr
      THEN [err |-> DecodeError("invalid Bech32 prefix"), addr |-> <<>>]
      ELSE [err |-> Nil, addr |-> d.data]

\* ValAddress.String: the canonical bech32 string of the address bytes.
String(va) == IF Len(va) = 0 THEN <<>> ELSE Bech32PrefixValAddr \o <<"1">> \o va

----------------------------------------------------------------------------
\* Requests, and the call each RunE issues for arguments a and decoded
\* validator v

EmptyRequest == [empty |-> TRUE]

Call(m, r) == [method |-> m, req |-> r]

NoResponse == [none |-> TRUE]

Response(c) == [of |-> c]

ExchangeRatesEmptyIsAll(a, v) ==
  IF Len(a) = 0 \/ a[1] = <<>>
  THEN Call("ExchangeRates", EmptyRequest)
  ELSE Call("ExchangeRate", [Denom |-> a[1]])

ExchangeRatesCall(a, v) ==
  IF Len(a) = 0
  THEN Call("ExchangeRates", EmptyRequest)
  ELSE Call("ExchangeRate", [Denom |-> a[1]])

ActivesCall(a, v) == Call("Actives", EmptyRequest)

ParamsCall(a, v) == Call("Params", EmptyRequest)

FeederDelegationRawArg(a, v) == Call("FeederDelegation", [ValidatorAddr |-> a[1]])

FeederDelegationCall(a, v) == Call("FeederDelegation", [ValidatorAddr |-> String(v)])

MissCounterAsFeeder(a, v) == Call("FeederDelegation", [ValidatorAddr |-> String(v)])

MissCounterCall(a, v) == Call("MissCounter", [ValidatorAddr |-> String(v)])

AggregatePrevoteCall(a, v) ==
  IF Len(a) = 0
  THEN Call("AggregatePrevotes", EmptyRequest)
  ELSE Call("AggregatePrevote", [ValidatorAddr |-> String(v)])

AggregateVoteListOnly(a, v) == Call("AggregateVotes", EmptyRequest)

AggregateVoteCall(a, v) ==
  IF Len(a) = 0
  THEN Call("AggregateVotes", EmptyRequest)
  ELSE Call("AggregateVote", [ValidatorAddr |-> String(v)])

----------------------------------------------------------------------------
\* The steps of one invocation

Step(s, e) == [step |-> s, err |-> e]

Return(e) == pc' = "done" /\ err' = e

\* cobra checks the Args validator before it runs RunE.
ValidateArgs(ok) ==
  /\ pc = "args"
  /\ trace' = Append(trace, Step("args", IF ok THEN Nil ELSE ArgumentError))
  /\ IF ok THEN pc' = "ctx" /\ err' = err ELSE Return(ArgumentError)
  /\ UNCHANGED <<cmd, args, validator, calls, res, stdout>>

GetClientQueryContextIgnoreErr(next) ==
  /\ pc = "ctx"
  /\ \E e \in {Nil} \cup ClientCtxErrors :
       /\ trace' = Append(trace, Step("ctx", e))
       /\ pc' = next /\ err' = err
  /\ UNCHANGED <<cmd, args, validator, calls, res, stdout>>

\* clientCtx, err := client.GetClientQueryContext(cmd); if err != nil { return err }
GetClientQueryContext(next) ==
  /\ pc = "ctx"
  /\ \E e \in {Nil} \cup ClientCtxErrors :
       /\ trace' = Append(trace, Step("ctx", e))
       /\ IF e = Nil THEN pc' = next /\ err' = err ELSE Return(e)
  /\ UNCHANGED <<cmd, args, validator, calls, res, stdout>>

DecodeValidatorIgnoreErr ==
  /\ pc = "decode"
  /\ LET r == ValAddressFromBech32(args[1])
     IN  /\ trace' = Append(trace, Step("decode", r.err))
         /\ validator' = r.addr
         /\ pc' = "rpc" /\ err' = err
  /\ UNCHANGED <<cmd, args, calls, res, stdout>>

\* validator, err := sdk.ValAddressFromBech32(args[0]); if err != nil { return err }
DecodeValidator ==
  /\ pc = "decode"
  /\ LET r == ValAddressFromBech32(args[1])
     IN  /\ trace' = Append(trace, Step("decode", r.err))
         /\ validator' = r.addr
         /\ IF r.err = Nil THEN pc' = "rpc" /\ err' = err ELSE Return(r.err)
  /\ UNCHANGED <<cmd, args, calls, res, stdout>>

InvokePrintOnErr(c) ==
  /\ pc = "rpc"
  /\ \E e \in {Nil} \cup RPCErrors :
       /\ calls' = Append(calls, c)
       /\ trace' = Append(trace, Step("rpc", e))
       /\ res' = Response(c)
       /\ pc' = "print" /\ err' = err
  /\ UNCHANGED <<cmd, args, validator, stdout>>

InvokeRetry(c) ==
  /\ pc = "rpc"
  /\ \E e \in {Nil} \cup RPCErrors :
       /\ calls' = IF e = Nil THEN Append(calls, c) ELSE calls \o <<c, c>>
       /\ trace' = Append(trace, Step("rpc", e))
       /\ IF e = Nil
          THEN res' = Response(c) /\ pc' = "print" /\ err' = err
          ELSE res' = res /\ Return(e)
  /\ UNCHANGED <<cmd, args, validator, stdout>>

\* res, err := queryClient.<Method>(ctx, req); if err != nil { return err }
Invoke(c) ==
  /\ pc = "rpc"
  /\ \E e \in {Nil} \cup RPCErrors :
       /\ calls' = Append(calls, c)
       /\ trace' = Append(trace, Step("rpc", e))
       /\ IF e = Nil
          THEN res' = Response(c) /\ pc' = "print" /\ err' = err
          ELSE res' = res /\ Return(e)
  /\ UNCHANGED <<cmd, args, validator, stdout>>

\* return clientCtx.PrintProto(res)
PrintProto ==
  /\ pc = "print"
  /\ \E e \in {Nil} \cup PrintErrors :
       /\ trace' = Append(trace, Step("print", e))
       /\ stdout' = IF e = Nil THEN Append(stdout, res) ELSE stdout
       /\ Return(e)
  /\ UNCHANGED <<cmd, args, validator, calls, res>>

----------------------------------------------------------------------------
\* The sub-commands

GetCmdQueryExchangeRates ==
  /\ cmd = "exchange-rates"
  /\ \/ ValidateArgs(RangeArgs(0, 1, Len(args)))
     \/ GetClientQueryContext("rpc")
     \/ Invoke(ExchangeRatesCall(args, validator))
     \/ PrintProto

GetCmdQueryActives ==
  /\ cmd = "actives"
  /\ \/ ValidateArgs(NoArgs(Len(args)))
     \/ GetClientQueryContext("rpc")
     \/ Invoke(ActivesCall(args, validator))
     \/ PrintProto

GetCmdQueryParams ==
  /\ cmd = "params"
  /\ \/ ValidateArgs(NoArgs(Len(args)))
     \/ GetClientQueryContext("rpc")
     \/ Invoke(ParamsCall(args, validator))
     \/ PrintProto

GetCmdQueryFeederDelegation ==
  /\ cmd = "feeder"
  /\ \/ ValidateArgs(ExactArgs(1, Len(args)))
     \/ GetClientQueryContext("decode")
     \/ DecodeValidator
     \/ Invoke(FeederDelegationCall(args, validator))
     \/ PrintProto

GetCmdQueryMissCounter ==
  /\ cmd = "miss"
  /\ \/ ValidateArgs(ExactArgs(1, Len(args)))
     \/ GetClientQueryContext("decode")
     \/ DecodeValidator
     \/ Invoke(MissCounterCall(args, validator))
     \/ PrintProto

GetCmdQueryAggregatePrevote ==
  /\ cmd = "aggregate-prevotes"
  /\ \/ ValidateArgs(RangeArgs(0, 1, Len(args)))
     \/ GetClientQueryContext(IF Len(args) = 0 THEN "rpc" ELSE "decode")
     \/ DecodeValidator
     \/ Invoke(AggregatePrevoteCall(args, validator))
     \/ PrintProto

GetCmdQueryAggregateVote ==
  /\ cmd = "aggregate-votes"
  /\ \/ ValidateArgs(RangeArgs(0, 1, Len(args)))
     \/ GetClientQueryContext(IF Len(args) = 0 THEN "rpc" ELSE "decode")
     \/ DecodeValidator
     \/ Invoke(AggregateVoteCall(args, validator))
     \/ PrintProto

Init ==
  /\ cmd \in GetQueryCmd
  /\ args \in ArgLists
  /\ pc = "args"
  /\ err = Nil
  /\ validator = <<>>
  /\ calls = <<>>
  /\ res = NoResponse
  /\ stdout = <<>>
  /\ trace = <<>>

Next ==
  \/ GetCmdQueryExchangeRates
  \/ GetCmdQueryActives
  \/ GetCmdQueryParams
  \/ GetCmdQueryFeederDelegation
  \/ GetCmdQueryMissCounter
  \/ GetCmdQueryAggregatePrevote
  \/ GetCmdQueryAggregateVote

Spec == Init /\ [][Next]_vars

----------------------------------------------------------------------------
\* Vocabulary of the properties

OptionalArgCmds == {"exchange-rates", "aggregate-prevotes", "aggregate-votes"}

ValidatorCmds == {"feeder", "miss", "aggregate-prevotes", "aggregate-votes"}

Done == pc = "done"

Took(s) == \E i \in 1..Len(trace) : trace[i].step = s

Failed(s) == \E i \in 1..Len(trace) : trace[i].step = s /\ trace[i].err # Nil

Succeeded(s) == \E i \in 1..Len(trace) : trace[i].step = s /\ trace[i].err = Nil

HasUpper(s) == \E i \in 1..Len(s) : s[i] \in {"V", "Q"}

Rank(s) ==
  CASE s = "args" -> 1 [] s = "ctx" -> 2 [] s = "decode" -> 3
    [] s = "rpc" -> 4 [] s = "print" -> 5

ListMethod(c) ==
  CASE c = "exchange-rates" -> "ExchangeRates"
    [] c = "aggregate-prevotes" -> "AggregatePrevotes"
    [] c = "aggregate-votes" -> "AggregateVotes"

SingularCall(c, a) ==
  CASE c = "exchange-rates" -> Call("ExchangeRate", [Denom |-> a])
    [] c = "aggregate-prevotes" ->
         Call("AggregatePrevote", [ValidatorAddr |-> String(ValAddressFromBech32(a).addr)])
    [] c = "aggregate-votes" ->
         Call("AggregateVote", [ValidatorAddr |-> String(ValAddressFromBech32(a).addr)])

----------------------------------------------------------------------------
\* C1: exchange-rates, aggregate-prevotes and aggregate-votes dispatch on the
\* presence of the argument.  With 0 arguments every call issued is the list
\* RPC of the command with an empty request; with 1 argument every call
\* issued is the singular RPC carrying the value (the denom as given, the
\* validator address decoded and re-encoded).  An invocation that got past
\* argument checking, context construction and decoding has issued exactly
\* that one call.
C1_PresenceDispatch ==
  cmd \in OptionalArgCmds =>
    /\ Len(args) = 0 =>
         \A i \in 1..Len(calls) : calls[i] = Call(ListMethod(cmd), EmptyRequest)
    /\ Len(args) = 1 =>
         \A i \in 1..Len(calls) : calls[i] = SingularCall(cmd, args[1])
    /\ (Done /\ Len(args) \in {0, 1} /\ Succeeded("ctx") /\ ~Failed("decode")) =>
         Len(calls) = 1

C1_Witness ==
  /\ cmd = "aggregate-votes" /\ Len(args) = 1 /\ Done /\ err = Nil
  /\ calls = <<Call("AggregateVote", [ValidatorAddr |-> <<"v", "1", "q">>])>>

\* C2: for feeder, miss, aggregate-prevotes and aggregate-votes, once the
\* decoding of the supplied argument has failed the command has ended with
\* the decoder's error (a DecodeError), and no call was issued and nothing
\* printed in that invocation.
C2_DecodeFailureNoCall ==
  (cmd \in ValidatorCmds /\ Len(args) = 1 /\ Took("decode")
     /\ ValAddressFromBech32(args[1]).err # Nil) =>
    /\ Done
    /\ err.kind = "DecodeError"
    /\ err = ValAddressFromBech32(args[1]).err
    /\ calls = <<>>
    /\ ~Took("rpc")

C2_Witness ==
  /\ cmd = "miss" /\ args = <<<<"V", "1", "q">>>> /\ Done
  /\ err.kind = "DecodeError" /\ calls = <<>>

\* C3: standard output is written only after the RPC returned successfully;
\* when decoding fails or the RPC returns an error the command returns that
\* very error, issues no further call and leaves standard output empty.
C3_NoOutputOnFailure ==
  /\ stdout # <<>> => (Succeeded("rpc") /\ res # NoResponse /\ stdout = <<res>>)
  /\ (Failed("decode") \/ Failed("rpc")) =>
       /\ Done
       /\ err = trace[Len(trace)].err
       /\ err # Nil
       /\ stdout = <<>>
       /\ Len(calls) = (IF Failed("rpc") THEN 1 ELSE 0)
       /\ ~Took("print")

C3_Witness ==
  /\ Done /\ Failed("rpc") /\ stdout = <<>> /\ Len(calls) = 1
  /\ err = [kind |-> "ServiceError", detail |-> "not found"]

\* C4 as stated: every invocation performs exactly one call, or none when its
\* input is rejected, and an invocation that performed its call has written
\* exactly one rendered result.
C4_Original ==
  Done =>
    /\ \/ Len(calls) = 1
       \/ Len(calls) = 0 /\ err.kind \in {"ArgumentError", "ClientCtxError", "DecodeError"}
    /\ Len(calls) = 1 => Len(stdout) = 1

\* C4 amended: an invocation never issues more than one call and never writes
\* more than one result.  It issues no call exactly when the argument check,
\* the client context or the address decoding failed, and one call otherwise;
\* it has written exactly one result when it returns success and none when
\* the argument check, the client context, the decoding or the RPC failed.
C4_AtMostOneCall ==
  /\ Len(calls) <= 1
  /\ Len(stdout) <= 1
  /\ Done =>
       /\ Len(calls) = 0 <=> err.kind \in {"ArgumentError", "ClientCtxError", "DecodeError"}
       /\ err = Nil => (Len(calls) = 1 /\ Len(stdout) = 1)
       /\ err.kind \in {"ArgumentError", "ClientCtxError", "DecodeError", "ServiceError"}
            => stdout = <<>>

C4_Witness ==
  /\ Done /\ err.kind = "ServiceError" /\ Len(calls) = 1 /\ stdout = <<>>
  /\ cmd = "actives"

\* C5: actives and params with one or more positional arguments end with an
\* ArgumentError and issue no call.
C5_NoArgsCommands ==
  (cmd \in {"actives", "params"} /\ Len(args) >= 1) =>
    /\ calls = <<>>
    /\ stdout = <<>>
    /\ pc \in {"args", "done"}
    /\ Done => (err = ArgumentError /\ trace = <<Step("args", ArgumentError)>>)

C5_Witness ==
  /\ cmd = "params" /\ Len(args) = 1 /\ Done /\ err.kind = "ArgumentError"
  /\ calls = <<>>

\* C6: the argument count is checked before every other step.  feeder and
\* miss with a number of arguments other than 1, and exchange-rates,
\* aggregate-prevotes and aggregate-votes with 2 or more, end with an
\* ArgumentError without building the context, decoding or calling, also
\* when the address is undecodable.
C6_ArgCountFirst ==
  /\ trace # <<>> => trace[1].step = "args"
  /\ ((cmd \in {"feeder", "miss"} /\ Len(args) # 1)
        \/ (cmd \in OptionalArgCmds /\ Len(args) >= 2)) =>
       /\ calls = <<>>
       /\ ~Took("ctx") /\ ~Took("decode") /\ ~Took("rpc")
       /\ pc \in {"args", "done"}
       /\ Done => (err.kind = "ArgumentError" /\ err.kind # "DecodeError")

C6_Witness ==
  /\ cmd = "feeder" /\ Len(args) = 2 /\ ValAddressFromBech32(args[1]).err # Nil
  /\ Done /\ err.kind = "ArgumentError" /\ calls = <<>>

\* C7 as stated: an accepted argument decodes and re-encodes to itself, so the
\* ValidatorAddr of the outgoing request equals the argument supplied.
C7_Original ==
  (cmd \in ValidatorCmds /\ Len(args) = 1 /\ Succeeded("decode")) =>
    /\ String(validator) = args[1]
    /\ \A i \in 1..Len(calls) : calls[i].req.ValidatorAddr = args[1]

\* C7 amended: an accepted argument decodes and re-encodes to its lower-case
\* form, and that form is the ValidatorAddr of the outgoing request; it
\* equals the argument supplied exactly when the argument has no upper-case
\* letter.
C7_RoundTripLowerCase ==
  (cmd \in ValidatorCmds /\ Len(args) = 1 /\ Succeeded("decode")) =>
    /\ String(validator) = ToLower(args[1])
    /\ \A i \in 1..Len(calls) : calls[i].req.ValidatorAddr = ToLower(args[1])
    /\ String(validator) = args[1] <=> ~HasUpper(args[1])
    /\ Took("rpc") => Len(calls) = 1

C7_Witness ==
  /\ cmd = "feeder" /\ args = <<<<"V", "1", "Q">>>> /\ Len(calls) = 1
  /\ calls[1].req.ValidatorAddr = <<"v", "1", "q">>

\* C8: exchange-rates with one argument puts the argument unchanged into the
\* Denom of the singular request, whatever the value (empty, upper case,
\* shaped like an address); it never decodes, never ends with a DecodeError
\* and never falls back to the list RPC.
C8_DenomVerbatim ==
  (cmd = "exchange-rates" /\ Len(args) = 1) =>
    /\ \A i \in 1..Len(calls) : calls[i] = Call("ExchangeRate", [Denom |-> args[1]])
    /\ ~Took("decode")
    /\ err.kind # "DecodeError"
    /\ (Done /\ Succeeded("ctx")) => Len(calls) = 1

C8_Witness ==
  /\ cmd = "exchange-rates" /\ args = <<<<>>>> /\ Done /\ err = Nil
  /\ calls = <<Call("ExchangeRate", [Denom |-> <<>>])>>

\* C9: the routing table is fixed and disjoint.  Every call of an invocation
\* is a method of the invoked sub-command; actives and params send an empty
\* request, feeder and miss only ever send their singular request.
C9_RoutingTable ==
  \A i \in 1..Len(calls) :
    LET m == calls[i].method
        r == calls[i].req
    IN  CASE cmd = "actives" -> m = "Actives" /\ r = EmptyRequest
          [] cmd = "params" -> m = "Params" /\ r = EmptyRequest
          [] cmd = "feeder" -> m = "FeederDelegation" /\ r # EmptyRequest
          [] cmd = "miss" -> m = "MissCounter" /\ r # EmptyRequest
          [] cmd = "exchange-rates" -> m \in {"ExchangeRates", "ExchangeRate"}
          [] cmd = "aggregate-prevotes" -> m \in {"AggregatePrevotes", "AggregatePrevote"}
          [] cmd = "aggregate-votes" -> m \in {"AggregateVotes", "AggregateVote"}

C9_Witness ==
  /\ cmd = "miss" /\ Done /\ err = Nil
  /\ calls = <<Call("MissCounter", [ValidatorAddr |-> <<"v", "1", "v">>])>>

\* C10: inside RunE the client context comes first, decoding second, the RPC
\* third and printing last.  A failing client context ends the command with
\* that error before any decoding, call or output, also when the address is
\* undecodable; a failing print after a successful RPC ends the command with
\* an error although one call was made.
C10_StepOrder ==
  /\ \A i, j \in 1..Len(trace) : i < j => Rank(trace[i].step) < Rank(trace[j].step)
  /\ Took("decode") => Succeeded("ctx")
  /\ Took("rpc") => Succeeded("ctx")
  /\ Took("print") => Succeeded("rpc")
  /\ Failed("ctx") =>
       /\ Done
       /\ err = trace[Len(trace)].err
       /\ err.kind = "ClientCtxError"
       /\ ~Took("decode") /\ calls = <<>> /\ stdout = <<>>
  /\ Failed("print") =>
       (Done /\ err.kind = "PrintError" /\ Len(calls) = 1 /\ Succeeded("rpc"))

C10_Witness ==
  /\ cmd = "feeder" /\ Len(args) = 1 /\ ValAddressFromBech32(args[1]).err # Nil
  /\ Done /\ err.kind = "ClientCtxError" /\ calls = <<>>

====
